---- MODULE Spec2Model ----
(***************************************************************************)
(* Session capture and summarization pipeline of AI-Care.                  *)
(*                                                                         *)
(*   src/contexts/transcription-context.tsx   TranscriptionProvider        *)
(*   src/components/patients/new-session-form.tsx   NewSessionForm         *)
(*                                                                         *)
(* The React state cells (useState) are the variables.  Every event        *)
(* handler runs to completion and React re-renders before the next event,  *)
(* so a handler invoked from the UI reads the state of the latest render.  *)
(* The part of handleFinishSession that runs after `await` still holds the *)
(* values of the render in which the button was pressed: they are kept in  *)
(* `continuations`.                                                        *)
(*                                                                         *)
(* Text is a sequence of tokens: token p in 1..NumPhrases is the text of   *)
(* mockPhrases[p-1], Sep is the blank line "\n\n", Undefined is the text   *)
(* "undefined" that string concatenation makes of a read past the array.   *)
(* The empty sequence is the empty string.  Timer periods (3 s, 60 s, 2 s) *)
(* are abstracted: a live timer may fire at any step.                      *)
(***************************************************************************)
EXTENDS Integers, Sequences, FiniteSets, TLC

\* ------------------------------------------------------------------ bounds
MaxStarts == 2          \* setInterval calls of startTranscription per run
MaxFragments == 2       \* fragments the transcript may hold
MaxDuration == 1        \* minutes the duration counter may reach
MaxCalls == 2           \* generateSummary invocations per run
MaxInputLen == 2        \* tokens of a transcript handed directly to generateSummary

\* --------------------------------------------------------------- constants
\* const mockPhrases = [...]  (eleven phrases, named by their position)
mockPhrases == <<1, 2, 3, 4, 5, 6, 7, 8, 9, 10, 11>>
NumPhrases == Len(mockPhrases)
Sep == 0
Undefined == NumPhrases + 1
Null == 0

\* What the session title input may hold.
Titles == {"", "Visit 1"}

\* The object generateSummary returns (text, keyPoints, prescriptions).
SummaryText == "Patient reported difficulty sleeping"
SummaryKeyPoints == <<"Insomnia", "Racing thoughts", "Work stress", "OTC sleep aids", "Sleep hygiene">>
SummaryPrescriptions == <<>>
MockSummary == [text |-> SummaryText, keyPoints |-> SummaryKeyPoints, prescriptions |-> SummaryPrescriptions]

VARIABLES
  \* TranscriptionProvider
  isTranscribing,          \* useState(false)
  transcript,              \* useState("")
  transcriptionInterval,   \* useState(null): the handle the provider holds
  intervals,               \* live fragment intervals: handle -> closure variable `index`
  nextId,                  \* number of startTranscription intervals created so far
  calls,                   \* generateSummary promises still referenced: argument, state, value
  nextCall,                \* number of generateSummary invocations so far
  \* NewSessionForm
  sessionTitle,            \* useState("")
  isGeneratingSummary,     \* useState(false)
  sessionDuration,         \* useState(0)
  timer,                   \* useState(null): the handle the form holds
  liveTimers,              \* live duration intervals
  continuations,           \* call -> what handleFinishSession closed over, until it resumes
  added,                   \* the records the last step handed to addSession
  numAdded,                \* number of addSession calls
  \* history
  lastCall,                \* the last of start / stop / reset on the session
  lastStep,                \* the last step: "reset" of the session, "repeat" of the
                           \* start/stop call before it, "rejected" finish (validation),
                           \* "failed" finish (summarization), or "other"
  cleanRun                 \* <<k>>: k fragments appended since a start() on an empty
                           \* transcript with no stop/reset/start since; <<>>: no such run

ctxVars == <<isTranscribing, transcript, transcriptionInterval, intervals, nextId>>
formVars == <<sessionTitle, isGeneratingSummary, sessionDuration, timer, liveTimers>>
finishVars == <<calls, nextCall, continuations, numAdded>>
histVars == <<lastCall, lastStep, cleanRun>>
vars == <<ctxVars, formVars, finishVars, added, histVars>>

NoRun == <<>>

\* ----------------------------------------------------------------- helpers
\* mockPhrases[j] of the source, j counted from 0; undefined past the end.
PhraseAt(j) == IF j < NumPhrases THEN mockPhrases[j + 1] ELSE Undefined

\* Mutant of AppendFragment: the new fragment is put in front.
AppendFragmentInFront(prev, phrase) ==
  <<phrase>> \o (IF prev # <<>> THEN <<Sep>> ELSE <<>>) \o prev

\* prev + (prev ? "\n\n" : "") + phrase
AppendFragment(prev, phrase) ==
  prev \o (IF prev # <<>> THEN <<Sep>> ELSE <<>>) \o <<phrase>>

\* String.prototype.trim: whitespace removed at both ends.
RECURSIVE TrimStart(_)
TrimStart(s) == IF s # <<>> /\ Head(s) = Sep THEN TrimStart(Tail(s)) ELSE s
RECURSIVE TrimEnd(_)
TrimEnd(s) == IF s # <<>> /\ s[Len(s)] = Sep THEN TrimEnd(SubSeq(s, 1, Len(s) - 1)) ELSE s
Trim(s) == TrimEnd(TrimStart(s))

\* Fragments in a transcript.
Fragments(s) == Cardinality({i \in 1..Len(s) : s[i] # Sep})

Without(f, k) == [i \in DOMAIN f \ {k} |-> f[i]]
With(f, k, v) == [i \in DOMAIN f \cup {k} |-> IF i = k THEN v ELSE f[i]]

\* ------------------------------------------------------ TranscriptionProvider
\* Mutant of startTranscription: the flag is toggled instead of set.
startTranscriptionToggling ==
  /\ nextId < MaxStarts
  /\ isTranscribing' = ~isTranscribing
  /\ nextId' = nextId + 1
  /\ intervals' = With(intervals, nextId + 1, 0)
  /\ transcriptionInterval' = nextId + 1

\* startTranscription: no guard on isTranscribing, a new interval every call.
startTranscription ==
  /\ nextId < MaxStarts
  /\ isTranscribing' = TRUE
  /\ nextId' = nextId + 1
  /\ intervals' = With(intervals, nextId + 1, 0)
  /\ transcriptionInterval' = nextId + 1

\* stopTranscription as closed over the handle h of the render it was made in.
stopTranscription(h) ==
  /\ isTranscribing' = FALSE
  /\ IF h # Null
       THEN /\ intervals' = Without(intervals, h)
            /\ transcriptionInterval' = Null
       ELSE UNCHANGED <<intervals, transcriptionInterval>>
  /\ UNCHANGED nextId

\* resetTranscription: stopTranscription(); setTranscript("")
resetTranscription(h) ==
  /\ stopTranscription(h)
  /\ transcript' = <<>>

\* Mutant of IntervalTick: the tick after the last phrase also ends the
\* session.
IntervalTickStopping(h, cap) ==
  /\ h \in DOMAIN intervals
  /\ IF intervals[h] < NumPhrases
       THEN /\ Fragments(transcript) < cap
            /\ \E j \in {intervals[h], intervals[h] + 1} :
                 transcript' = AppendFragment(transcript, PhraseAt(j))
            /\ intervals' = [intervals EXCEPT ![h] = @ + 1]
            /\ cleanRun' = IF cleanRun = NoRun THEN NoRun ELSE <<cleanRun[1] + 1>>
            /\ UNCHANGED isTranscribing
       ELSE /\ intervals' = Without(intervals, h)
            /\ isTranscribing' = FALSE
            /\ UNCHANGED <<transcript, cleanRun>>
  /\ UNCHANGED <<transcriptionInterval, nextId>>
  /\ added' = <<>>
  /\ lastStep' = "other"
  /\ UNCHANGED <<formVars, finishVars, lastCall>>

\* The callback of the interval h.  The updater passed to setTranscript reads
\* `index` when React runs it: at once (eager state computation) or in the
\* next render, after index++ has run.
\* `cap` bounds the fragments a run of the model lets the transcript hold.
IntervalTick(h, cap) ==
  /\ h \in DOMAIN intervals
  /\ IF intervals[h] < NumPhrases
       THEN /\ Fragments(transcript) < cap
            /\ \E j \in {intervals[h], intervals[h] + 1} :
                 transcript' = AppendFragment(transcript, PhraseAt(j))
            /\ intervals' = [intervals EXCEPT ![h] = @ + 1]
            /\ cleanRun' = IF cleanRun = NoRun THEN NoRun ELSE <<cleanRun[1] + 1>>
       ELSE /\ intervals' = Without(intervals, h)
            /\ UNCHANGED <<transcript, cleanRun>>
  /\ UNCHANGED <<isTranscribing, transcriptionInterval, nextId>>
  /\ added' = <<>>
  /\ lastStep' = "other"
  /\ UNCHANGED <<formVars, finishVars, lastCall>>

IntervalCallback(h) == IntervalTick(h, MaxFragments)

\* generateSummary(t) up to its await: a pending promise.
generateSummary(t) ==
  /\ nextCall < MaxCalls
  /\ nextCall' = nextCall + 1
  /\ calls' = With(calls, nextCall + 1, [arg |-> t, state |-> "pending", value |-> <<>>])

\* Mutant of SummaryOutcome: the function throws instead of returning.
SummaryOutcomeThrowing(t) == [state |-> "rejected", value |-> <<"SummarizationFailure">>]

\* generateSummary after the 2 s timeout: returns the mock object.
SummaryOutcome(t) == [state |-> "fulfilled", value |-> <<MockSummary>>]

\* ------------------------------------------------------------ NewSessionForm
SetSessionTitle(t) ==
  /\ sessionTitle # t
  /\ sessionTitle' = t
  /\ UNCHANGED <<ctxVars, isGeneratingSummary, sessionDuration, timer, liveTimers>>
  /\ added' = <<>>
  /\ lastStep' = "other"
  /\ UNCHANGED <<finishVars, lastCall, cleanRun>>

\* handleStartTranscription; the effect cleanup of [timer] clears the handle
\* that setTimer replaces.
handleStartTranscription ==
  /\ startTranscription
  /\ UNCHANGED transcript
  /\ timer' = nextId + 1
  /\ liveTimers' = (liveTimers \ {timer}) \cup {nextId + 1}
  /\ lastCall' = "start"
  /\ lastStep' = IF lastCall = "start" THEN "repeat" ELSE "other"
  /\ cleanRun' = IF transcript = <<>> THEN <<0>> ELSE NoRun
  /\ added' = <<>>
  /\ UNCHANGED <<sessionTitle, isGeneratingSummary, sessionDuration, finishVars>>

handleStopTranscription ==
  /\ stopTranscription(transcriptionInterval)
  /\ UNCHANGED transcript
  /\ IF timer # Null
       THEN /\ liveTimers' = liveTimers \ {timer}
            /\ timer' = Null
       ELSE UNCHANGED <<liveTimers, timer>>
  /\ lastCall' = "stop"
  /\ lastStep' = IF lastCall \in {"stop", "none"} THEN "repeat" ELSE "other"
  /\ cleanRun' = NoRun
  /\ added' = <<>>
  /\ UNCHANGED <<sessionTitle, isGeneratingSummary, sessionDuration, finishVars>>

\* onClick={resetTranscription} of the "Clear Transcript" button.
ClearTranscript ==
  /\ resetTranscription(transcriptionInterval)
  /\ lastCall' = "reset"
  /\ lastStep' = "reset"
  /\ cleanRun' = NoRun
  /\ added' = <<>>
  /\ UNCHANGED <<formVars, finishVars>>

\* The callback of the duration interval.
DurationCallback(h) ==
  /\ h \in liveTimers
  /\ sessionDuration < MaxDuration
  /\ sessionDuration' = sessionDuration + 1
  /\ UNCHANGED <<ctxVars, sessionTitle, isGeneratingSummary, timer, liveTimers>>
  /\ added' = <<>>
  /\ lastStep' = "other"
  /\ UNCHANGED <<finishVars, lastCall, cleanRun>>

\* Mutant of handleFinishSession: the in-progress flag is not set.
handleFinishSessionWithoutFlag ==
  /\ IF sessionTitle = "" \/ Len(Trim(transcript)) = 0
       THEN UNCHANGED finishVars
       ELSE /\ generateSummary(transcript)
            /\ continuations' =
                 With(continuations, nextCall + 1,
                      [sessionTitle |-> sessionTitle,
                       sessionDuration |-> sessionDuration,
                       transcript |-> transcript,
                       transcriptionInterval |-> transcriptionInterval])
            /\ UNCHANGED numAdded
  /\ added' = <<>>
  /\ lastStep' = IF sessionTitle = "" \/ Len(Trim(transcript)) = 0 THEN "rejected" ELSE "other"
  /\ UNCHANGED <<ctxVars, formVars>>
  /\ UNCHANGED <<lastCall, cleanRun>>

\* Mutant of handleFinishSession: the empty-transcript test reports the error
\* but does not return.
handleFinishSessionWithoutReturn ==
  /\ IF sessionTitle = ""
       THEN UNCHANGED <<isGeneratingSummary, finishVars>>
       ELSE /\ isGeneratingSummary' = TRUE
            /\ generateSummary(transcript)
            /\ continuations' =
                 With(continuations, nextCall + 1,
                      [sessionTitle |-> sessionTitle,
                       sessionDuration |-> sessionDuration,
                       transcript |-> transcript,
                       transcriptionInterval |-> transcriptionInterval])
            /\ UNCHANGED numAdded
  /\ added' = <<>>
  /\ lastStep' = IF sessionTitle = "" \/ Len(Trim(transcript)) = 0 THEN "rejected" ELSE "other"
  /\ UNCHANGED <<ctxVars, sessionTitle, sessionDuration, timer, liveTimers>>
  /\ UNCHANGED <<lastCall, cleanRun>>

\* handleFinishSession up to its await.
handleFinishSession ==
  /\ IF sessionTitle = "" \/ Len(Trim(transcript)) = 0
       THEN UNCHANGED <<isGeneratingSummary, finishVars>>
       ELSE /\ isGeneratingSummary' = TRUE
            /\ generateSummary(transcript)
            /\ continuations' =
                 With(continuations, nextCall + 1,
                      [sessionTitle |-> sessionTitle,
                       sessionDuration |-> sessionDuration,
                       transcript |-> transcript,
                       transcriptionInterval |-> transcriptionInterval])
            /\ UNCHANGED numAdded
  /\ added' = <<>>
  /\ lastStep' = IF sessionTitle = "" \/ Len(Trim(transcript)) = 0 THEN "rejected" ELSE "other"
  /\ UNCHANGED <<ctxVars, sessionTitle, sessionDuration, timer, liveTimers>>
  /\ UNCHANGED <<lastCall, cleanRun>>

\* Mutant of DurationOrOne: the duration is recorded as it is.
DurationAsIs(d) == d

\* sessionDuration || 1
DurationOrOne(d) == IF d = 0 THEN 1 ELSE d

\* Mutant of FinishContinuation: keyPoints and prescriptions are copied into
\* each other's field.
FinishContinuationSwapping(c, summary) ==
  /\ numAdded' = numAdded + 1
  /\ added' = <<
       [title |-> c.sessionTitle,
        duration |-> DurationOrOne(c.sessionDuration),
        transcript |-> c.transcript,
        summary |-> summary.text,
        keyPoints |-> summary.prescriptions,
        prescriptions |-> summary.keyPoints]>>
  /\ sessionTitle' = ""
  /\ sessionDuration' = 0
  /\ resetTranscription(c.transcriptionInterval)
  /\ isGeneratingSummary' = FALSE
  /\ lastCall' = "reset"
  /\ lastStep' = "reset"
  /\ cleanRun' = NoRun
  /\ UNCHANGED <<timer, liveTimers>>

\* Mutant of FinishContinuation: the record is handed to addSession twice.
FinishContinuationTwice(c, summary) ==
  /\ numAdded' = numAdded + 2
  /\ added' = <<
       [title |-> c.sessionTitle,
        duration |-> DurationOrOne(c.sessionDuration),
        transcript |-> c.transcript,
        summary |-> summary.text,
        keyPoints |-> summary.keyPoints,
        prescriptions |-> summary.prescriptions],
       [title |-> c.sessionTitle,
        duration |-> DurationOrOne(c.sessionDuration),
        transcript |-> c.transcript,
        summary |-> summary.text,
        keyPoints |-> summary.keyPoints,
        prescriptions |-> summary.prescriptions]>>
  /\ sessionTitle' = ""
  /\ sessionDuration' = 0
  /\ resetTranscription(c.transcriptionInterval)
  /\ isGeneratingSummary' = FALSE
  /\ lastCall' = "reset"
  /\ lastStep' = "reset"
  /\ cleanRun' = NoRun
  /\ UNCHANGED <<timer, liveTimers>>

\* handleFinishSession after its await, with the values c it closed over.
FinishContinuation(c, summary) ==
  /\ numAdded' = numAdded + 1
  /\ added' = <<
       [title |-> c.sessionTitle,
        duration |-> DurationOrOne(c.sessionDuration),
        transcript |-> c.transcript,
        summary |-> summary.text,
        keyPoints |-> summary.keyPoints,
        prescriptions |-> summary.prescriptions]>>
  /\ sessionTitle' = ""
  /\ sessionDuration' = 0
  /\ resetTranscription(c.transcriptionInterval)
  /\ isGeneratingSummary' = FALSE
  /\ lastCall' = "reset"
  /\ lastStep' = "reset"
  /\ cleanRun' = NoRun
  /\ UNCHANGED <<timer, liveTimers>>

\* Mutant of FinishFailure: the catch block resets the form as the success
\* path does.
FinishFailureResetting ==
  /\ sessionTitle' = ""
  /\ sessionDuration' = 0
  /\ resetTranscription(transcriptionInterval)
  /\ isGeneratingSummary' = FALSE
  /\ added' = <<>>
  /\ lastStep' = "failed"
  /\ lastCall' = "reset"
  /\ cleanRun' = NoRun
  /\ UNCHANGED <<timer, liveTimers, numAdded>>

\* handleFinishSession when its await throws: the catch block raises a toast,
\* the finally block clears the flag.
FinishFailure ==
  /\ isGeneratingSummary' = FALSE
  /\ added' = <<>>
  /\ lastStep' = "failed"
  /\ UNCHANGED <<ctxVars, sessionTitle, sessionDuration, timer, liveTimers>>
  /\ UNCHANGED <<numAdded, lastCall, cleanRun>>

\* The promise of call i settles.  handleFinishSession, when it awaits the
\* promise, resumes and drops it; a promise nobody awaits stays with its caller.
ResolveSummary(i) ==
  /\ i \in DOMAIN calls
  /\ calls[i].state = "pending"
  /\ LET out == SummaryOutcome(calls[i].arg) IN
       IF i \in DOMAIN continuations
         THEN /\ FinishContinuation(continuations[i], out.value[1])
              /\ continuations' = Without(continuations, i)
              /\ calls' = Without(calls, i)
         ELSE /\ calls' = [calls EXCEPT ![i] = [arg |-> @.arg, state |-> out.state, value |-> out.value]]
              /\ added' = <<>>
              /\ lastStep' = "other"
              /\ UNCHANGED <<ctxVars, formVars, continuations, numAdded, lastCall, cleanRun>>
  /\ UNCHANGED nextCall

\* ------------------------------------------------------------- specifications
Init ==
  /\ isTranscribing = FALSE
  /\ transcript = <<>>
  /\ transcriptionInterval = Null
  /\ intervals = <<>>
  /\ nextId = 0
  /\ calls = <<>>
  /\ nextCall = 0
  /\ sessionTitle = ""
  /\ isGeneratingSummary = FALSE
  /\ sessionDuration = 0
  /\ timer = Null
  /\ liveTimers = {}
  /\ continuations = <<>>
  /\ added = <<>>
  /\ numAdded = 0
  /\ lastCall = "none"
  /\ lastStep = "other"
  /\ cleanRun = NoRun

\* The buttons as rendered: Play when idle, Pause when recording, Finish
\* disabled while generating or while the trimmed transcript is empty.
PlayButton == ~isTranscribing /\ handleStartTranscription
PauseButton == isTranscribing /\ handleStopTranscription
\* Mutant of FinishEnabled: the button is not disabled while generating.
FinishEnabledWhileGenerating == ~(Len(Trim(transcript)) = 0)

FinishEnabled == ~(isGeneratingSummary \/ Len(Trim(transcript)) = 0)
FinishButton == FinishEnabled /\ handleFinishSession

Next ==
  \/ \E t \in Titles : SetSessionTitle(t)
  \/ PlayButton
  \/ PauseButton
  \/ ClearTranscript
  \/ FinishButton
  \/ \E h \in 1..MaxStarts : IntervalCallback(h)
  \/ \E h \in 1..MaxStarts : DurationCallback(h)
  \/ \E i \in 1..MaxCalls : ResolveSummary(i)

Spec == Init /\ [][Next]_vars

\* The session's start() and stop() called in any order, as the context
\* exports them: startTranscription and stopTranscription carry no guard.
NextApi ==
  \/ handleStartTranscription
  \/ handleStopTranscription
  \/ ClearTranscript
  \/ \E h \in 1..MaxStarts : IntervalCallback(h)
  \/ \E h \in 1..MaxStarts : DurationCallback(h)

SpecApi == Init /\ [][NextApi]_vars

\* handleFinishSession invoked whatever the transcript holds: the handler
\* validates the title and the transcript itself (lines 68-84), the button's
\* `disabled` only repeats the transcript test.
FinishAnyTranscript == ~isGeneratingSummary /\ handleFinishSession

NextHandlers ==
  \/ \E t \in Titles : SetSessionTitle(t)
  \/ PlayButton
  \/ PauseButton
  \/ ClearTranscript
  \/ FinishAnyTranscript
  \/ \E h \in 1..MaxStarts : IntervalCallback(h)
  \/ \E h \in 1..MaxStarts : DurationCallback(h)
  \/ \E i \in 1..MaxCalls : ResolveSummary(i)

SpecHandlers == Init /\ [][NextHandlers]_vars

\* A Summarizer that may fail (SummarizationFailure): the promise the finish
\* awaits is rejected instead of fulfilled.  The mock of this repository
\* never rejects; the catch block of handleFinishSession is written for a
\* Summarizer that does.
RejectSummary(i) ==
  /\ i \in DOMAIN calls
  /\ calls[i].state = "pending"
  /\ i \in DOMAIN continuations
  /\ FinishFailure
  /\ continuations' = Without(continuations, i)
  /\ calls' = Without(calls, i)
  /\ UNCHANGED nextCall

\* The recording and the finish of one session after another, each finish
\* ending in a record or in a failure (the Clear Transcript button is left
\* unpressed).
NextFailing ==
  \/ \E t \in Titles : SetSessionTitle(t)
  \/ PlayButton
  \/ PauseButton
  \/ FinishButton
  \/ \E h \in 1..MaxStarts : IntervalCallback(h)
  \/ \E h \in 1..MaxStarts : DurationCallback(h)
  \/ \E i \in 1..MaxCalls : ResolveSummary(i)
  \/ \E i \in 1..MaxCalls : RejectSummary(i)

SpecFailing == Init /\ [][NextFailing]_vars

\* The timeout a pending summary awaits fires: the promise is settled, one
\* way or the other.
SettleSummary(i) == ResolveSummary(i) \/ RejectSummary(i)

SpecFailingFair ==
  /\ Init
  /\ [][NextFailing]_vars
  /\ \A i \in 1..MaxCalls : WF_vars(SettleSummary(i))

\* One recording after another, each allowed to run through the whole
\* script: the transcript may hold the script and MaxFragments more.
ScriptCallback(h) == IntervalTick(h, NumPhrases + MaxFragments)

NextScript ==
  \/ PlayButton
  \/ PauseButton
  \/ ClearTranscript
  \/ \E h \in 1..MaxStarts : ScriptCallback(h)

SpecScript == Init /\ [][NextScript]_vars

\* generateSummary on its own, invoked with any text; the timeout it awaits
\* fires, so a pending promise is eventually settled.
SummaryInputs == UNION {[1..n -> {Sep, 1, 2}] : n \in 0..MaxInputLen}

CallGenerateSummary(t) ==
  /\ generateSummary(t)
  /\ added' = <<>>
  /\ lastStep' = "other"
  /\ UNCHANGED <<ctxVars, formVars, continuations, numAdded, lastCall, cleanRun>>

NextSummary ==
  \/ \E t \in SummaryInputs : CallGenerateSummary(t)
  \/ \E i \in 1..MaxCalls : ResolveSummary(i)

SpecSummary ==
  /\ Init
  /\ [][NextSummary]_vars
  /\ \A i \in 1..MaxCalls : WF_vars(ResolveSummary(i))

\* ------------------------------------------------------------------ claims
PendingCalls == {i \in DOMAIN calls : calls[i].state = "pending"}
Settled(i) == i \in DOMAIN calls /\ calls[i].state # "pending"

\* s is t followed by some text.
IsExtension(t, s) == Len(s) > Len(t) /\ SubSeq(s, 1, Len(t)) = t

\* The first k script phrases joined by blank lines.
RECURSIVE JoinFirst(_)
JoinFirst(k) ==
  IF k = 0 THEN <<>>
  ELSE IF k = 1 THEN <<mockPhrases[1]>>
  ELSE JoinFirst(k - 1) \o <<Sep, mockPhrases[k]>>

\* C1: once stop() has returned (on its own or as the first statement of
\* reset()), no step before the next start() makes the transcript longer.
C1_NoGrowthAfterStop ==
  [][(lastCall \in {"stop", "reset"}) => (Len(transcript') <= Len(transcript))]_vars

\* C2: at most one fragment interval is live and it is the one whose handle
\* the provider holds; at most one duration interval is live.
C2_SingleFragmentSource ==
  /\ Cardinality(DOMAIN intervals) <= 1
  /\ DOMAIN intervals \subseteq {transcriptionInterval}
  /\ Cardinality(liveTimers) <= 1

\* C3: isTranscribing is true iff the last of the start/stop calls was
\* start, and a start or stop that repeats the call before it (a stop on the
\* fresh session included) changes neither the transcript nor the duration.
C3_ActiveFollowsLastCall ==
  /\ [](lastCall = "start" => isTranscribing)
  /\ [](lastCall \in {"stop", "none"} => ~isTranscribing)
  /\ [][lastStep' = "repeat" =>
          transcript' = transcript /\ sessionDuration' = sessionDuration]_vars

\* C3 witness: a second start() in a row has run on a session that holds a
\* transcript and a duration.
C3_Witness ==
  /\ lastStep = "repeat"
  /\ lastCall = "start"
  /\ transcript # <<>>
  /\ sessionDuration > 0

\* C4: right after a reset (Clear Transcript, or the reset of a finish) the
\* session is idle, the transcript is empty and the duration is 0.
C4_ResetClearsAll ==
  lastStep = "reset" =>
    ~isTranscribing /\ transcript = <<>> /\ sessionDuration = 0

\* C5: every step leaves the transcript as it is, appends text at its end,
\* or is a reset that empties it.
C5_AppendOnly ==
  [][\/ transcript' = transcript
     \/ IsExtension(transcript, transcript')
     \/ lastStep' = "reset" /\ transcript' = <<>>]_vars

\* C5 witness: a second fragment has been appended behind a blank line.
C5_Witness ==
  /\ Fragments(transcript) = 2
  /\ transcript[2] = Sep

\* C6: k ticks after a start() on an empty transcript, with no stop, reset or
\* start in between, the transcript is the first k phrases joined by blank lines.
C6_ScriptOrder ==
  cleanRun # NoRun => transcript = JoinFirst(cleanRun[1])

\* C7: the duration never decreases while the session stays active, and it
\* is incremented only in states where the session is active.
C7_DurationFrozenWhileIdle ==
  [][/\ (isTranscribing /\ isTranscribing') => sessionDuration' >= sessionDuration
     /\ sessionDuration' > sessionDuration => isTranscribing]_vars

\* C8: a generateSummary call on the empty string never yields a Summary
\* Result: once settled it has failed with EmptyInputError.
C8_EmptyInputFails ==
  \A i \in DOMAIN calls :
    calls[i].arg = <<>> =>
      /\ calls[i].state # "fulfilled"
      /\ calls[i].state = "rejected" => calls[i].value = <<"EmptyInputError">>

\* C9: every generateSummary call is eventually settled, a settled call
\* holds exactly one outcome and keeps it, a pending call holds none, and a
\* call on a non-empty text is fulfilled by a result whose text is a string.
C9_OneOutcome ==
  /\ [](\A i \in DOMAIN calls :
          /\ Len(calls[i].value) = (IF calls[i].state = "pending" THEN 0 ELSE 1)
          /\ (Settled(i) /\ calls[i].arg # <<>>) =>
               /\ calls[i].state = "fulfilled"
               /\ calls[i].value[1].text \in STRING)
  /\ [][\A i \in DOMAIN calls : Settled(i) => calls'[i] = calls[i]]_vars
  /\ \A i \in 1..MaxCalls : (i \in PendingCalls) ~> Settled(i)

\* C9 witness: a call on a non-empty text and a call on the empty string
\* have both been settled.
C9_Witness ==
  /\ \E i \in DOMAIN calls : Settled(i) /\ calls[i].arg # <<>>
  /\ \E i \in DOMAIN calls : Settled(i) /\ calls[i].arg = <<>>

\* C10: at most one generateSummary call started by a finish is pending.
C10_OneInFlight == Cardinality(PendingCalls) <= 1

\* C10 witness: a second finish is in flight, after the first one completed,
\* with the in-progress flag set.
C10_Witness ==
  /\ Cardinality(PendingCalls) = 1
  /\ nextCall = 2
  /\ isGeneratingSummary

\* C11: a finish rejected by validation (empty title, or a transcript that is
\* empty once trimmed) changes nothing of the session or the form, invokes no
\* generateSummary, leaves the in-progress flag alone and hands over no record.
C11_RejectedFinishChangesNothing ==
  [][lastStep' = "rejected" =>
       /\ sessionTitle = "" \/ Len(Trim(transcript)) = 0
       /\ UNCHANGED <<isTranscribing, transcript, sessionTitle, sessionDuration>>
       /\ UNCHANGED <<transcriptionInterval, intervals, timer, liveTimers>>
       /\ UNCHANGED <<calls, nextCall, continuations, isGeneratingSummary, numAdded>>
       /\ added' = <<>>]_vars

\* C11 witness: a finish with a title and an empty transcript has just been
\* rejected while the session was recording with a minute on the counter.
C11_Witness ==
  /\ lastStep = "rejected"
  /\ sessionTitle # ""
  /\ transcript = <<>>
  /\ isTranscribing
  /\ sessionDuration > 0

\* The finish whose continuation ran in this step, if any: call i had a
\* continuation before the step and has none after it.
Resumed(i) == i \in DOMAIN continuations /\ i \notin DOMAIN continuations'

C13_FinishResetsSession ==
  [][(added # <<>>) =>
       /\ ~isTranscribing
       /\ transcript = <<>>
       /\ sessionDuration = 0
       /\ (lastCall' # "start") => UNCHANGED <<isTranscribing, transcript>>]_vars

\* C14: the step in which a finish learns that its summarization failed
\* changes neither the transcript, the title, the duration nor the session,
\* hands no record over, and clears the in-progress flag.
C14_FailureKeepsEverything ==
  [][(lastStep' = "failed") =>
       /\ isGeneratingSummary /\ ~isGeneratingSummary'
       /\ UNCHANGED <<transcript, sessionTitle, sessionDuration>>
       /\ UNCHANGED <<isTranscribing, transcriptionInterval, intervals>>
       /\ UNCHANGED <<timer, liveTimers, numAdded>>
       /\ added' = <<>>]_vars

\* C14 witness: a finish has failed and left a title, a transcript and a
\* duration behind, with the Finish button enabled again.
C14_Witness ==
  /\ lastStep = "failed"
  /\ sessionTitle # ""
  /\ transcript # <<>>
  /\ sessionDuration > 0
  /\ numAdded = 0
  /\ FinishEnabled

\* A finish completes successfully in this step: its continuation runs and
\* the summarization has not failed.
SuccessfulFinish ==
  \E i \in DOMAIN continuations : Resumed(i) /\ lastStep' # "failed"

\* C15: a step hands exactly one record over when it completes a finish
\* successfully and none otherwise (a rejected finish, a failed one, any
\* other step), so the records number the successfully completed finishes:
\* never more than the finishes that passed validation and are not pending.
C15_OneRecordPerSuccess ==
  /\ [][/\ Len(added') = (IF SuccessfulFinish THEN 1 ELSE 0)
        /\ numAdded' = numAdded + Len(added')]_vars
  /\ [](numAdded <= nextCall - Cardinality(DOMAIN continuations))

\* C15 witness: two finishes passed validation, one failed and one
\* succeeded, and one record was handed over.
C15_Witness ==
  /\ nextCall = 2
  /\ continuations = <<>>
  /\ numAdded = 1
  /\ lastStep = "failed"

\* C16: the record of a successful finish carries the title the finish was
\* invoked with (not empty), the transcript that was passed to the
\* Summarizer, and the text, keyPoints and prescriptions of the result that
\* invocation returned.
C16_RecordCopiesInputs ==
  [][\A i \in DOMAIN continuations :
       (Resumed(i) /\ added' # <<>>) =>
         /\ added'[1].title = continuations[i].sessionTitle
         /\ added'[1].title # ""
         /\ added'[1].transcript = calls[i].arg
         /\ added'[1].summary = SummaryOutcome(calls[i].arg).value[1].text
         /\ added'[1].keyPoints = SummaryOutcome(calls[i].arg).value[1].keyPoints
         /\ added'[1].prescriptions = SummaryOutcome(calls[i].arg).value[1].prescriptions]_vars

\* C16 witness: a record with a title, two fragments and the summary.
C16_Witness ==
  /\ added # <<>>
  /\ added[1].title = "Visit 1"
  /\ Fragments(added[1].transcript) = 2
  /\ added[1].summary = SummaryText

\* C17: no fragment is lost by a finish: at the instant the finish resets
\* the session, the session's transcript holds no fragment that the record's
\* transcript lacks (as it must if the two are equal).
C17_NoFragmentLost ==
  [][(added' # <<>>) =>
       (Fragments(transcript) <= Fragments(added'[1].transcript))]_vars

\* C18: a finish that passes validation sets the in-progress flag in the
\* step that invokes the Summarizer; the flag is set exactly while a
\* summarization is pending; and a set flag is eventually cleared, whether
\* the summarization succeeds or fails.
C18_FlagFollowsSummarization ==
  /\ [][(nextCall' # nextCall) => (~isGeneratingSummary /\ isGeneratingSummary')]_vars
  /\ [](isGeneratingSummary <=> DOMAIN continuations # {})
  /\ (isGeneratingSummary ~> ~isGeneratingSummary)

\* C18 witness: the flag has been set by a finish and cleared by its
\* failure, and no summarization is pending.
C18_Witness ==
  /\ nextCall = 1
  /\ numAdded = 0
  /\ lastStep = "failed"
  /\ ~isGeneratingSummary
  /\ PendingCalls = {}

\* C19: an interval never ticks more often than the script has phrases,
\* so a start() on an empty transcript that is not followed by a stop or
\* reset leaves at most NumPhrases fragments; the tick of an interval that
\* has produced them all removes the interval and appends nothing; and
\* isTranscribing stays true after it, until stop() or reset().
C19_ScriptTerminates ==
  /\ [](\A h \in DOMAIN intervals : intervals[h] <= NumPhrases)
  /\ [](cleanRun # NoRun =>
          Fragments(transcript) = cleanRun[1] /\ cleanRun[1] <= NumPhrases)
  /\ [][\A h \in DOMAIN intervals :
          (intervals[h] = NumPhrases /\ lastCall' = lastCall) =>
            /\ transcript' = transcript
            /\ intervals' \in {intervals, Without(intervals, h)}]_vars
  /\ [](lastCall = "start" => isTranscribing)

\* C19 witness: a recording has run through the script, its interval has
\* cancelled itself, and the session is still active.
C19_Witness ==
  /\ lastCall = "start"
  /\ cleanRun = <<NumPhrases>>
  /\ Fragments(transcript) = NumPhrases
  /\ intervals = <<>>
  /\ isTranscribing

\* C20: a start() leaves the transcript as it is, and the first tick of the
\* interval it creates, on a transcript that is not empty, appends a blank
\* line and the first script phrase.
C20_RestartFromFirstPhrase ==
  [][/\ (nextId' # nextId) => (transcript' = transcript)
     /\ \A h \in DOMAIN intervals :
          (/\ intervals[h] = 0
           /\ h \in DOMAIN intervals'
           /\ intervals'[h] = 1
           /\ transcript # <<>>) =>
            transcript' = transcript \o <<Sep, mockPhrases[1]>>]_vars

====
